---- MODULE Spec2Model ----
(***************************************************************************)
(* CSV ingestion pipeline of theffing/Loader.                              *)
(*                                                                         *)
(* The repository holds two deployments of the same pipeline:              *)
(*   "mysql"  : src/loader.py, src/pipeline_jobs.py, src/database.py       *)
(*   "sqlite" : src/src/loader.py, src/src/pipeline/jobs.py,               *)
(*              src/src/database.py                                        *)
(* A behaviour runs one of them (variable variant, fixed by Init), either   *)
(* as a batch run (loader.py main, load_all_files) or as the watch/queue   *)
(* pipeline (pipeline_watch.py, pipeline_worker.py): variable regime.      *)
(*                                                                         *)
(* A database connection has autocommit off: the statements of a           *)
(* connection are held in its open transaction (pending) and reach the     *)
(* committed tables (data, meta) at conn.commit().  A connection dropped   *)
(* without commit loses its transaction.  An action is the statements of   *)
(* one call up to and including one access to the state the calls share   *)
(* (the directories, the committed tables).                                *)
(***************************************************************************)
EXTENDS Integers, Sequences, FiniteSets, TLC

\* ---------------------------------------------------------------- bounds
MaxPuts == 2            \* files dropped into the raw directory in one behaviour
MaxCalls == 2           \* pool tasks and queue jobs started in one behaviour
MaxFiles == 3           \* files in the raw directory at the start of a batch run
MaxSrcLen == 4          \* characters of a source override
MaxCrashes == 1         \* stops of the batch process in one behaviour
MaxPieces == 3          \* pieces ("a", ".csv", ...) a file name is made of
MaxRows == 3            \* data rows of a file whose write is followed by statement
MaxEvents == 2          \* file system events the watcher handles in one behaviour
MaxWorkers == 5         \* largest --num-workers given to the worker launcher
batch_size == 1         \* stands for the default batch_size=10000 of process_csv_file

Workers == {"w1", "w2"} \* pool threads / queue workers
WorkerOrder == << "w1", "w2" >>
Names == {"a.csv"}      \* file names under the raw directory
Tickers == {"A", "B"}   \* entity keys

NULL == 0               \* SQL NULL / absent value
BadDate == 0            \* a date cell pandas cannot parse
NoDate == -1            \* an empty date cell: pandas reads NaN

\* ------------------------------------------------------------ input files
Row(d, c, v, s) == [date |-> d, close |-> c, vwap |-> v, symbol |-> s]
CsvFile(cols, rows) == [columns |-> cols, rows |-> rows]

Req == {"date", "close"}
Full == {"date", "close", "vwap"}
WithSym == {"date", "close", "vwap", "symbol"}
NoClose == {"date", "vwap"}

\* The files the environment may drop.  Dates are days 9 and 10 of one month.
Catalog ==
  { CsvFile(Full, << >>),                                        \* header only
    CsvFile(Req, << Row(10, 2, NULL, "") >>),                     \* no optional column
    CsvFile(Full, << Row(10, 1, 1, ""), Row(9, 2, 2, "") >>),     \* two batches
    CsvFile(WithSym, << Row(10, 1, 1, "B") >>),                   \* own symbol column
    CsvFile(NoClose, << Row(10, NULL, 2, "") >>)                  \* a required column missing
  }

\* ---------------------------------------------------------------- state
VARIABLES
  variant,   \* "mysql" or "sqlite": which deployment runs
  regime,    \* "batch" (load_all_files pool) or "queue" (watcher, queue, workers)
  fs,        \* [raw, processed, failed]: directory -> (file name -> file)
  puts,      \* number of files dropped so far (also the id of the last one)
  calls,     \* number of pool tasks and queue jobs started so far
  data,      \* committed data table: sequence of rows, in insertion order
  meta,      \* committed metadata table: ticker -> row (primary key)
  wk,        \* per worker: position and locals of the running call
  hist,      \* history of the committed ingests (auxiliary)
  run,       \* one run of load_all_files, seen from its main thread
  sc         \* one call followed on its own: a function of sources.py,
             \* resolve_source, validate_csv

mainvars == << variant, regime, fs, puts, calls, data, meta, wk, hist >>
vars == << variant, regime, fs, puts, calls, data, meta, wk, hist, run, sc >>


\* ------------------------------------------------------------ small helpers
SetMin(S) == CHOOSE x \in S : \A y \in S : x <= y
SetMax(S) == CHOOSE x \in S : \A y \in S : y <= x
Remove(f, k) == [x \in DOMAIN f \ {k} |-> f[x]]

\* os.path.basename(csv_path).replace('.csv', '').upper()
Ticker(name) == CASE name = "a.csv" -> "A" [] name = "b.csv" -> "B"

\* str(date): ISO form, zero padded, here the two digits of the day
DateStr(d) == << d \div 10, d % 10 >>
StrDate(s) == s[1] * 10 + s[2]
\* comparison of TEXT values: character by character
StrLeq(a, b) == a[1] < b[1] \/ (a[1] = b[1] /\ a[2] <= b[2])

\* --------------------------------------------------------------- filesystem
InRaw(f, name) == name \in DOMAIN f.raw

\* a copy in place of the rename: the file stays in the raw directory
os_rename_copy(f, name, dst) ==
  [f EXCEPT ![dst] = (name :> [id |-> f.raw[name].id]) @@ f[dst]]

\* os.rename(csv_path, <dir>/basename): the file leaves the raw directory and
\* replaces whatever has its name at the destination.  Nothing reads a file
\* of the processed or failed directory: they record which file they hold.
os_rename(f, name, dst) ==
  [f EXCEPT !.raw = Remove(f.raw, name),
            ![dst] = (name :> [id |-> f.raw[name].id]) @@ f[dst]]

\* _move_to_failed: dest.unlink() if it exists, then shutil.move
UnlinkFailed(f, name) == [f EXCEPT !.failed = Remove(f.failed, name)]

\* --------------------------------------------------------------- validation
\* validate_csv on the content of a file: required columns, first row's date
validate_csv(c) ==
  /\ Req \subseteq c.columns
  /\ Len(c.rows) >= 1
  /\ c.rows[1].date # BadDate

\* --------------------------------------------------------------- transform
HasBadDate(c) == \E i \in 1..Len(c.rows) : c.rows[i].date = BadDate

\* the symbol / ticker column of the DataFrame
KeyOfRow(v, c, r, ticker) ==
  IF v = "sqlite" /\ "symbol" \in c.columns THEN r.symbol ELSE ticker

DataFrame(v, c, ticker) ==
  [i \in 1..Len(c.rows) |->
     [symbol |-> KeyOfRow(v, c, c.rows[i], ticker),
      date   |-> c.rows[i].date,
      close  |-> IF "close" \in c.columns THEN c.rows[i].close ELSE NULL,
      vwap   |-> IF "vwap" \in c.columns THEN c.rows[i].vwap ELSE NULL]]

DfDates(df) == {df[i].date : i \in 1..Len(df)}
first_date(df) == SetMin(DfDates(df))
last_date(df) == SetMax(DfDates(df))
total_rows(df) == Len(df)

\* batches = [df[i:i+batch_size] for i in range(0, len(df), batch_size)]
NumBatches(df) == (Len(df) + batch_size - 1) \div batch_size
Batch(df, k) ==
  SubSeq(df, (k - 1) * batch_size + 1,
         IF k * batch_size < Len(df) THEN k * batch_size ELSE Len(df))

\* mysql: batch[columns] needs every listed column in the DataFrame
MissingColumn(v, cols) == v = "mysql" /\ ~(Full \subseteq cols)

\* the value columns the upsert overwrites on a key conflict
UpdateColumns(v, cols) ==
  IF v = "mysql" THEN {"close", "vwap"} ELSE cols \ {"symbol", "date"}

\* ---------------------------------------------------------------- database
KeyIndex(tbl, r) ==
  {i \in 1..Len(tbl) : tbl[i].symbol = r.symbol /\ tbl[i].date = r.date}

\* INSERT ... ON DUPLICATE KEY UPDATE / ON CONFLICT(symbol, date) DO UPDATE SET
InsertOrUpdate(tbl, r, upd) ==
  IF KeyIndex(tbl, r) = {}
  THEN Append(tbl, r)
  ELSE [i \in 1..Len(tbl) |->
          IF i \in KeyIndex(tbl, r)
          THEN [tbl[i] EXCEPT
                  !.close = IF "close" \in upd THEN r.close ELSE @,
                  !.vwap  = IF "vwap" \in upd THEN r.vwap ELSE @]
          ELSE tbl[i]]

RECURSIVE executemany(_, _, _)
executemany(tbl, rows, upd) ==
  IF rows = << >> THEN tbl
  ELSE executemany(InsertOrUpdate(tbl, Head(rows), upd), Tail(rows), upd)

\* the same statement on a connection with autocommit on
ExecuteBatch_autocommit(committed, pending, batch, upd) ==
  [committed |-> executemany(committed, batch, upd), pending |-> pending \o batch]

\* cursor.executemany on a connection with autocommit off: the rows join the
\* connection's open transaction, the committed table is untouched
ExecuteBatch(committed, pending, batch, upd) ==
  [committed |-> committed, pending |-> pending \o batch]

\* the batch loop, stopped after k batches
RECURSIVE RunBatches(_, _, _, _)
RunBatches(committed, df, k, upd) ==
  IF k = 0 THEN [committed |-> committed, pending |-> << >>]
  ELSE LET p == RunBatches(committed, df, k - 1, upd)
       IN ExecuteBatch(p.committed, p.pending, Batch(df, k), upd)

\* the metadata values as bound to the statement
MetaDate(v, d) == IF v = "sqlite" THEN DateStr(d) ELSE d
DateOf(v, x) == IF v = "sqlite" THEN StrDate(x) ELSE x
Least(v, a, b) ==
  IF v = "sqlite" THEN (IF StrLeq(a, b) THEN a ELSE b) ELSE (IF a <= b THEN a ELSE b)
Greatest(v, a, b) ==
  IF v = "sqlite" THEN (IF StrLeq(a, b) THEN b ELSE a) ELSE (IF a <= b THEN b ELSE a)

\* total_rows kept as a running sum
metadata_upsert_sum(v, m, t, f, l, n) ==
  IF t \notin DOMAIN m
  THEN (t :> [first_date |-> MetaDate(v, f), last_date |-> MetaDate(v, l),
              total_rows |-> n]) @@ m
  ELSE [m EXCEPT ![t] =
          [first_date |-> Least(v, m[t].first_date, MetaDate(v, f)),
           last_date  |-> Greatest(v, m[t].last_date, MetaDate(v, l)),
           total_rows |-> m[t].total_rows + n]]

\* first_date overwritten by the incoming file's instead of LEAST
metadata_upsert_replace(v, m, t, f, l, n) ==
  (t :> [first_date |-> MetaDate(v, f), last_date |-> MetaDate(v, l),
         total_rows |-> n]) @@ m

\* INSERT INTO metadata ... ON DUPLICATE KEY UPDATE first_date = LEAST(..), ...
metadata_upsert(v, m, t, f, l, n) ==
  IF t \notin DOMAIN m
  THEN (t :> [first_date |-> MetaDate(v, f), last_date |-> MetaDate(v, l),
              total_rows |-> n]) @@ m
  ELSE [m EXCEPT ![t] =
          [first_date |-> Least(v, m[t].first_date, MetaDate(v, f)),
           last_date  |-> Greatest(v, m[t].last_date, MetaDate(v, l)),
           total_rows |-> n]]

\* ------------------------------------------------------------------ history
\* the values the most recently committed file holds for each (key, date)
RECURSIVE LastWritten(_, _)
LastWritten(e, rows) ==
  IF rows = << >> THEN e
  ELSE LET r == Head(rows)
           k == << r.symbol, r.date >>
       IN LastWritten([x \in DOMAIN e \cup {k} |->
                         IF x = k THEN [close |-> r.close, vwap |-> r.vwap]
                         ELSE e[x]],
                      Tail(rows))

RowDatesOf(df, t) == {df[i].date : i \in {j \in 1..Len(df) : df[j].symbol = t}}

\* hist after the commit of the file (name, id, content) whose DataFrame is df
Committed(h, name, id, content, df) ==
  [lastCommit |-> [name |-> name, content |-> content],
   ingested   |-> h.ingested \cup {id},
   crashes    |-> h.crashes,
   repeat     |-> h.lastCommit = [name |-> name, content |-> content],
   expect     |-> LastWritten(h.expect, df),
   fileDates  |-> [h.fileDates EXCEPT ![Ticker(name)] = @ \cup DfDates(df)],
   lastCount  |-> [h.lastCount EXCEPT ![Ticker(name)] = Len(df)],
   keyDates   |-> [t \in Tickers |-> h.keyDates[t] \cup RowDatesOf(df, t)]]

\* ----------------------------------------------------------------- sources
\* A str is the sequence of its characters; an Optional[str] is a record:
\* None, or Some(s).  Python's truth test "if source" / "not source" holds of
\* a str exactly when it is non-empty.
None == [given |-> FALSE, s |-> << >>]
Some(s) == [given |-> TRUE, s |-> s]
Truthy(o) == o.given /\ o.s # << >>

Whitespace == {" "}
LowerMap == [c \in {"F", "M", "P"} |-> CASE c = "F" -> "f" [] c = "M" -> "m" [] c = "P" -> "p"]
\* the characters of the model in code point order
Ascii == << " ", "F", "M", "P", "a", "c", "e", "f", "g", "i", "m", "n", "o", "p",
            "s", "t", "v", "y" >>
Ord(c) == CHOOSE i \in 1..Len(Ascii) : Ascii[i] = c

\* str.strip()
RECURSIVE LStrip(_)
LStrip(s) == IF s # << >> /\ Head(s) \in Whitespace THEN LStrip(Tail(s)) ELSE s
RECURSIVE RStrip(_)
RStrip(s) ==
  IF s # << >> /\ s[Len(s)] \in Whitespace THEN RStrip(SubSeq(s, 1, Len(s) - 1)) ELSE s
Strip(s) == RStrip(LStrip(s))

\* str.lower()
Lower(s) == [i \in 1..Len(s) |-> IF s[i] \in DOMAIN LowerMap THEN LowerMap[s[i]] ELSE s[i]]

\* str < str
RECURSIVE StrBefore(_, _)
StrBefore(a, b) ==
  IF b = << >> THEN FALSE
  ELSE IF a = << >> THEN TRUE
  ELSE IF Head(a) # Head(b) THEN Ord(Head(a)) < Ord(Head(b))
  ELSE StrBefore(Tail(a), Tail(b))

\* sorted(...)
RECURSIVE sorted(_)
sorted(S) ==
  IF S = {} THEN << >>
  ELSE LET m == CHOOSE x \in S : \A y \in S : x = y \/ StrBefore(x, y)
       IN << m >> \o sorted(S \ {m})

tiingo == << "t", "i", "i", "n", "g", "o" >>
fmp == << "f", "m", "p" >>
yfinance == << "y", "f", "i", "n", "a", "n", "c", "e" >>

SOURCE_TABLES ==
  (tiingo :> [data |-> "ticker_data", meta |-> "ticker_metadata"])
  @@ (fmp :> [data |-> "ticker_data_fmp", meta |-> "ticker_metadata_fmp"])
  @@ (yfinance :> [data |-> "ticker_data_yfinance", meta |-> "ticker_metadata_yfinance"])

\* if not source: return "tiingo"; return source.strip().lower()
normalize_source(source) ==
  IF ~Truthy(source) THEN tiingo ELSE Lower(Strip(source.s))

\* an unregistered name gets the tables of the default source
get_source_tables_default(source) ==
  LET normalized == normalize_source(source)
  IN IF normalized \in DOMAIN SOURCE_TABLES
     THEN [raised |-> "none", data |-> SOURCE_TABLES[normalized].data,
           meta |-> SOURCE_TABLES[normalized].meta]
     ELSE [raised |-> "none", data |-> SOURCE_TABLES[tiingo].data,
           meta |-> SOURCE_TABLES[tiingo].meta]

\* tables = SOURCE_TABLES.get(normalized); if not tables: raise ValueError
get_source_tables(source) ==
  LET normalized == normalize_source(source)
  IN IF normalized \in DOMAIN SOURCE_TABLES
     THEN [raised |-> "none", data |-> SOURCE_TABLES[normalized].data,
           meta |-> SOURCE_TABLES[normalized].meta]
     ELSE [raised |-> "ValueError", data |-> "", meta |-> ""]

\* return sorted(SOURCE_TABLES.keys())
list_sources == sorted(DOMAIN SOURCE_TABLES)
InList(x, l) == \E i \in 1..Len(l) : l[i] = x

\* a resolved file path: whether it lies under RAW_DIR, and then its parts
\* relative to RAW_DIR (directories first, the file name last)
FilePath(under, parts) == [under |-> under, parts |-> parts]
FileName == << "a" >>

\* the path inference tried before the override
resolve_source_pathFirst(file_path, source) ==
  IF file_path.under /\ Len(file_path.parts) > 1 /\ InList(file_path.parts[1], list_sources)
  THEN file_path.parts[1]
  ELSE IF Truthy(source) THEN normalize_source(source)
  ELSE tiingo

\* resolve_source of pipeline_jobs.py; relative_to(RAW_DIR) raises ValueError
\* for a path that is not under RAW_DIR
resolve_source(file_path, source) ==
  IF Truthy(source) THEN normalize_source(source)
  ELSE IF file_path.under /\ Len(file_path.parts) > 1
          /\ InList(file_path.parts[1], list_sources)
  THEN file_path.parts[1]
  ELSE tiingo

\* -------------------------------------------------------------------- Init
Idle ==
  [pc |-> "idle", mode |-> "none", path |-> "", fid |-> 0, content |-> CsvFile({}, << >>),
   df |-> << >>, failedBatch |-> 0, conn |-> "none",
   committed |-> FALSE, moved |-> "none", failedAt |-> "none", result |-> "none",
   sub |-> << >>]

NoFiles == [n \in {} |-> 0]

\* no run of load_all_files and no call of the source functions is followed
NoRun == [pc |-> "off"]
NoCall == [pc |-> "off"]

\* the pipeline before the first file is dropped
Fresh ==
  /\ fs = [raw |-> NoFiles, processed |-> NoFiles, failed |-> NoFiles,
           made |-> regime = "batch"]
  /\ puts = 0
  /\ calls = 0
  /\ data = << >>
  /\ meta = [t \in {} |-> 0]
  /\ wk = [w \in Workers |-> Idle]
  /\ hist = [lastCommit |-> [name |-> "", content |-> CsvFile({}, << >>)],
             ingested   |-> {},
             crashes    |-> 0,
             repeat     |-> FALSE,
             expect     |-> [k \in {} |-> 0],
             fileDates  |-> [t \in Tickers |-> {}],
             lastCount  |-> [t \in Tickers |-> 0],
             keyDates   |-> [t \in Tickers |-> {}]]

Init ==
  /\ variant \in {"mysql", "sqlite"}
  /\ regime \in {"batch", "queue"}
  /\ Fresh
  /\ run = NoRun
  /\ sc = NoCall

UpdCols(w) == UpdateColumns(variant, wk[w].content.columns)

\* ----------------------------------------------------------- environment
\* a file is dropped into the raw directory (a new file, or a corrected one
\* under the name of an earlier one)
PutFile(n, c) ==
  /\ puts < MaxPuts
  /\ puts' = puts + 1
  /\ fs' = [fs EXCEPT !.raw = (n :> [id |-> puts + 1, content |-> c]) @@ Remove(fs.raw, n)]
  /\ UNCHANGED << run, sc, variant, regime, calls, data, meta, wk, hist >>

\* --------------------------------------------------- control of one call
\* the file moved before the commit
AfterStep_moveFirst(step, ok) ==
  CASE step = "read"    -> IF ok THEN "move" ELSE "except"
    [] step = "write"   -> IF ok THEN "ret" ELSE "except"
    [] step = "move"    -> IF ok THEN "write" ELSE "except"
    [] step = "except"  -> "ret"

\* the except handler sends a failed call back to its first step
AfterStep_retry(step, ok) ==
  CASE step = "read"    -> IF ok THEN "write" ELSE "except"
    [] step = "write"   -> IF ok THEN "move" ELSE "except"
    [] step = "move"    -> IF ok THEN "ret" ELSE "except"
    [] step = "except"  -> "read"

\* the statement that follows each step of process_csv_file, by outcome
AfterStep(step, ok) ==
  CASE step = "read"    -> IF ok THEN "write" ELSE "except"
    [] step = "write"   -> IF ok THEN "move" ELSE "except"
    [] step = "move"    -> IF ok THEN "ret" ELSE "except"
    [] step = "except"  -> "ret"

\* step raised: control leaves the try block for the except handler; the
\* DataFrame and the statements of the uncommitted transaction go with it
Unwind(r, step, at) ==
  [r EXCEPT !.pc = AfterStep(step, FALSE), !.failedAt = at,
            !.content = Idle.content, !.df = << >>]

\* the except handler of process_csv_file: try os.rename(csv_path, failed_path)
\* except: pass; return False.  osok: the rename is not refused by the system.
HandlerMoves(f, name, osok) == InRaw(f, name) /\ osok
HandlerFs(f, name, osok) ==
  IF HandlerMoves(f, name, osok) THEN os_rename(f, name, "failed") ELSE f
HandlerReturn(r, f, osok) ==
  [r EXCEPT !.pc = AfterStep("except", HandlerMoves(f, r.path, osok)),
            !.moved = IF HandlerMoves(f, r.path, osok) THEN "failed" ELSE @,
            !.result = "False"]

\* idle workers are interchangeable: the next task goes to the first idle one
FirstIdle(w) ==
  \E i \in 1..Len(WorkerOrder) :
    /\ WorkerOrder[i] = w
    /\ wk[w].pc = "idle"
    /\ \A j \in 1..(i - 1) : wk[WorkerOrder[j]].pc # "idle"

\* load_all_files: a file that passes validate_csv is submitted to the pool
Submit(w, n) ==
  /\ regime = "batch"
  /\ FirstIdle(w)
  /\ calls < MaxCalls
  /\ InRaw(fs, n)
  /\ validate_csv(fs.raw[n].content)
  /\ wk' = [wk EXCEPT ![w] = [Idle EXCEPT !.pc = "read", !.mode = "batch", !.path = n,
                                          !.fid = fs.raw[n].id]]
  /\ calls' = calls + 1
  /\ UNCHANGED << run, sc, variant, regime, fs, puts, data, meta, hist >>

\* process_csv_file, from pd.read_csv to the list of batches
ReadCsv(w) ==
  /\ wk[w].pc = "read"
  /\ IF ~InRaw(fs, wk[w].path)
     THEN wk' = [wk EXCEPT ![w] = Unwind(@, "read", "read")]
     ELSE LET f == fs.raw[wk[w].path]
              c == f.content
          IN IF c.rows = << >>
             THEN wk' = [wk EXCEPT ![w].pc = "ret", ![w].fid = f.id,
                                   ![w].failedAt = "empty", ![w].result = "False"]
             ELSE IF HasBadDate(c)
             THEN wk' = [wk EXCEPT ![w] = Unwind([@ EXCEPT !.fid = f.id], "read", "date")]
             ELSE wk' = [wk EXCEPT ![w].pc = AfterStep("read", TRUE), ![w].fid = f.id,
                                   ![w].content = c,
                                   ![w].df = DataFrame(variant, c, Ticker(wk[w].path))]
  /\ UNCHANGED << run, sc, variant, regime, fs, puts, calls, data, meta, hist >>

\* process_csv_file from get_connection to conn.commit() and conn.close().
\* Up to the commit the statements touch only the call's own connection, so
\* they are one step with it; at is the statement that raises ("none": no
\* one), k the batches executed before it (failedBatch = k + 1 is the batch
\* whose executemany raised).  A missing column raises in the first batch.
\* When a statement raises, the connection is neither committed nor closed:
\* its transaction is lost, and the step goes on through the except handler.
WriteTransaction(w) ==
  /\ wk[w].pc = "write"
  /\ \E at \in {"connect", "batch", "meta", "commit", "none"},
        k \in 0..NumBatches(wk[w].df), osok \in BOOLEAN :
       /\ at = "connect" => k = 0
       /\ at = "batch" => k < NumBatches(wk[w].df)
       /\ at \in {"meta", "commit", "none"} => k = NumBatches(wk[w].df)
       /\ MissingColumn(variant, wk[w].content.columns) => (k = 0 /\ at \in {"connect", "batch"})
       /\ at = "none" => osok
       /\ LET r == RunBatches(data, wk[w].df, k, UpdCols(w))
          IN IF at = "none"
             THEN /\ data' = executemany(r.committed, r.pending, UpdCols(w))
                  /\ meta' = metadata_upsert(variant, meta, Ticker(wk[w].path),
                                             first_date(wk[w].df), last_date(wk[w].df),
                                             total_rows(wk[w].df))
                  /\ hist' = Committed(hist, wk[w].path, wk[w].fid, wk[w].content, wk[w].df)
                  /\ wk' = [wk EXCEPT ![w].pc = AfterStep("write", TRUE),
                                      ![w].committed = TRUE, ![w].conn = "closed"]
                  /\ fs' = fs
             ELSE /\ data' = r.committed
                  /\ wk' = [wk EXCEPT ![w] =
                       HandlerReturn(
                         Unwind([@ EXCEPT
                                   !.conn = IF at = "connect" THEN "none" ELSE "open",
                                   !.failedBatch = IF at = "batch" THEN k + 1 ELSE 0],
                                "write",
                                IF at = "batch" /\ MissingColumn(variant, wk[w].content.columns)
                                THEN "columns" ELSE at),
                         fs, osok)]
                  /\ fs' = HandlerFs(fs, wk[w].path, osok)
                  /\ UNCHANGED << meta, hist >>
  /\ UNCHANGED << run, sc, variant, regime, puts, calls >>

\* os.rename(csv_path, processed_path); return True
MoveProcessed(w) ==
  /\ wk[w].pc = "move"
  /\ \E osok \in BOOLEAN :
       IF InRaw(fs, wk[w].path) /\ osok
       THEN /\ fs' = os_rename(fs, wk[w].path, "processed")
            /\ wk' = [wk EXCEPT ![w].pc = AfterStep("move", TRUE),
                                ![w].moved = "processed", ![w].result = "True",
                                ![w].content = Idle.content, ![w].df = << >>]
       ELSE /\ fs' = fs
            /\ wk' = [wk EXCEPT ![w] = Unwind(@, "move", "move")]
  /\ UNCHANGED << run, sc, variant, regime, puts, calls, data, meta, hist >>

\* the except handler after a failed read or a failed move to processed
ExceptHandler(w) ==
  /\ wk[w].pc = "except"
  /\ \E osok \in BOOLEAN :
       /\ fs' = HandlerFs(fs, wk[w].path, osok)
       /\ wk' = [wk EXCEPT ![w] = HandlerReturn(@, fs, osok)]
  /\ UNCHANGED << run, sc, variant, regime, puts, calls, data, meta, hist >>

\* process_csv_file has returned: a pool task ends; process_csv_job goes on
\* with the boolean it got (success = loader.process_csv_file(path))
Return(w) ==
  /\ wk[w].pc = "ret"
  /\ wk' = [wk EXCEPT ![w] =
              IF wk[w].mode = "batch" THEN Idle
              ELSE [Idle EXCEPT !.pc = IF wk[w].result = "True" THEN "jdone" ELSE "jfail",
                                !.mode = "job", !.path = wk[w].path, !.fid = wk[w].fid,
                                !.sub = wk[w].sub,
                                !.result = wk[w].result,
                                !.failedAt = IF wk[w].result = "True" THEN "none"
                                             ELSE "process"]]
  /\ UNCHANGED << run, sc, variant, regime, fs, puts, calls, data, meta, hist >>

\* ------------------------------------------------------------ queue worker
\* the source overrides a job is enqueued with, and the path of its file
\* (the watched files lie directly under RAW_DIR)
JobSources == {None, Some(fmp), Some(<< "f" >>)}
PathOf(n) == FilePath(TRUE, << FileName >>)
FileId(f, n) == IF InRaw(f, n) THEN f.raw[n].id ELSE 0

\* os.makedirs(processed_dir, exist_ok=True); os.makedirs(failed_dir, ...)
makedirs(f) == [f EXCEPT !.made = TRUE]

\* the job goes on without looking for its file
Missing_never(f, n) == FALSE

\* if not path.exists(): return False
Missing(f, n) == ~InRaw(f, n)

\* the terminal directories created before the source is looked up
JobEntry_mkdirFirst(v, f, n, src) ==
  IF Missing(f, n)
  THEN [pc |-> "jdone", fid |-> 0, result |-> "False", failedAt |-> "missing", fs |-> f,
        sub |-> << >>]
  ELSE IF v = "mysql"
  THEN IF get_source_tables(Some(resolve_source(PathOf(n), src))).raised # "none"
       THEN [pc |-> "jdone", fid |-> FileId(f, n), result |-> "raised",
             failedAt |-> "source", fs |-> makedirs(f), sub |-> << >>]
       ELSE [pc |-> "jdone", fid |-> FileId(f, n), result |-> "raised",
             failedAt |-> "init", fs |-> makedirs(f),
             sub |-> resolve_source(PathOf(n), src)]
  ELSE [pc |-> "jvalidate", fid |-> FileId(f, n), result |-> "none",
        failedAt |-> "none", fs |-> makedirs(f), sub |-> << >>]

\* process_csv_job up to the constructed CSVLoader.  pipeline_jobs.py resolves
\* the source and looks up its tables (ValueError for an unregistered one),
\* then passes table_name= and metadata_table= to CSVLoader, whose __init__
\* in loader.py accepts neither: TypeError, before __init__ runs.  jobs.py
\* of the sqlite deployment takes no source; its CSVLoader.__init__ creates
\* the processed and failed directories.  sub is the subdirectory of the
\* processed and failed roots that the job names as its terminal directories:
\* PROCESSED_DIR / resolved_source in pipeline_jobs.py, the roots themselves
\* (the empty name) in jobs.py.
JobEntry(v, f, n, src) ==
  IF Missing(f, n)
  THEN [pc |-> "jdone", fid |-> 0, result |-> "False", failedAt |-> "missing", fs |-> f,
        sub |-> << >>]
  ELSE IF v = "mysql"
  THEN IF get_source_tables(Some(resolve_source(PathOf(n), src))).raised # "none"
       THEN [pc |-> "jdone", fid |-> FileId(f, n), result |-> "raised",
             failedAt |-> "source", fs |-> f, sub |-> << >>]
       ELSE [pc |-> "jdone", fid |-> FileId(f, n), result |-> "raised",
             failedAt |-> "init", fs |-> f, sub |-> resolve_source(PathOf(n), src)]
  ELSE [pc |-> "jvalidate", fid |-> FileId(f, n), result |-> "none",
        failedAt |-> "none", fs |-> makedirs(f), sub |-> << >>]

\* a worker dequeues the job of file n, enqueued with override src
JobStart(w, n, src) ==
  /\ regime = "queue"
  /\ FirstIdle(w)
  /\ calls < MaxCalls
  /\ LET e == JobEntry(variant, fs, n, src)
     IN /\ wk' = [wk EXCEPT ![w] = [Idle EXCEPT !.pc = e.pc, !.mode = "job", !.path = n,
                                                !.fid = e.fid, !.result = e.result,
                                                !.failedAt = e.failedAt,
                                                !.sub = e.sub]]
        /\ fs' = e.fs
  /\ calls' = calls + 1
  /\ UNCHANGED << run, sc, variant, regime, puts, data, meta, hist >>

\* if not loader.validate_csv(path): _move_to_failed(...); return False
JobValidate(w) ==
  /\ wk[w].pc = "jvalidate"
  /\ wk' = [wk EXCEPT ![w].pc =
              IF InRaw(fs, wk[w].path) /\ validate_csv(fs.raw[wk[w].path].content)
              THEN "read" ELSE "jfail",
                      ![w].failedAt =
              IF InRaw(fs, wk[w].path) /\ validate_csv(fs.raw[wk[w].path].content)
              THEN "none" ELSE "validate"]
  /\ UNCHANGED << run, sc, variant, regime, fs, puts, calls, data, meta, hist >>

\* _move_to_failed(path, failed_dir): mkdir, unlink the destination if it
\* exists, then shutil.move, which raises when the file is no longer at path
JobMoveToFailed(w) ==
  /\ wk[w].pc = "jfail"
  /\ IF InRaw(fs, wk[w].path)
     THEN /\ fs' = os_rename(UnlinkFailed(makedirs(fs), wk[w].path), wk[w].path, "failed")
          /\ wk' = [wk EXCEPT ![w].pc = "jdone", ![w].result = "False"]
     ELSE /\ fs' = UnlinkFailed(makedirs(fs), wk[w].path)
          /\ wk' = [wk EXCEPT ![w].pc = "jdone", ![w].result = "raised"]
  /\ UNCHANGED << run, sc, variant, regime, puts, calls, data, meta, hist >>

\* the job is over: the worker takes the next one
JobDone(w) ==
  /\ wk[w].pc = "jdone"
  /\ wk' = [wk EXCEPT ![w] = Idle]
  /\ UNCHANGED << run, sc, variant, regime, fs, puts, calls, data, meta, hist >>

\* ------------------------------------------------------------------- Next
Next ==
  \/ \E n \in Names, c \in Catalog : PutFile(n, c)
  \/ \E w \in Workers, n \in Names : Submit(w, n)
  \/ \E w \in Workers : ReadCsv(w)
  \/ \E w \in Workers : WriteTransaction(w)
  \/ \E w \in Workers : MoveProcessed(w)
  \/ \E w \in Workers : ExceptHandler(w)
  \/ \E w \in Workers : Return(w)
  \/ \E w \in Workers, n \in Names, src \in JobSources : JobStart(w, n, src)
  \/ \E w \in Workers : JobValidate(w)
  \/ \E w \in Workers : JobMoveToFailed(w)
  \/ \E w \in Workers : JobDone(w)

Spec == Init /\ [][Next]_vars

\* ============================================================ dirty dates
\* The pipeline fed with files that pass validate_csv and hold a date cell
\* pandas cannot parse beyond the first row, next to a clean file.
DateCatalog ==
  { CsvFile(Full, << Row(10, 1, 1, ""), Row(BadDate, 2, 2, "") >>),
    CsvFile(Full, << Row(9, 2, 2, "") >>) }

DateNext ==
  \/ \E n \in Names, c \in DateCatalog : PutFile(n, c)
  \/ \E w \in Workers, n \in Names : Submit(w, n)
  \/ \E w \in Workers : ReadCsv(w)
  \/ \E w \in Workers : WriteTransaction(w)
  \/ \E w \in Workers : MoveProcessed(w)
  \/ \E w \in Workers : ExceptHandler(w)
  \/ \E w \in Workers : Return(w)
  \/ \E w \in Workers, n \in Names, src \in JobSources : JobStart(w, n, src)
  \/ \E w \in Workers : JobValidate(w)
  \/ \E w \in Workers : JobMoveToFailed(w)
  \/ \E w \in Workers : JobDone(w)

DateSpec == Init /\ [][DateNext]_vars

\* ========================================================= repeated dates
\* The pipeline fed with files that hold two rows of one date, next to a file
\* of two different dates.
RepeatCatalog ==
  { CsvFile(Full, << Row(10, 1, 1, ""), Row(10, 2, 2, "") >>),
    CsvFile(Full, << Row(9, 1, 1, ""), Row(10, 2, 2, "") >>) }

RepeatNext ==
  \/ \E n \in Names, c \in RepeatCatalog : PutFile(n, c)
  \/ \E w \in Workers, n \in Names : Submit(w, n)
  \/ \E w \in Workers : ReadCsv(w)
  \/ \E w \in Workers : WriteTransaction(w)
  \/ \E w \in Workers : MoveProcessed(w)
  \/ \E w \in Workers : ExceptHandler(w)
  \/ \E w \in Workers : Return(w)
  \/ \E w \in Workers, n \in Names, src \in JobSources : JobStart(w, n, src)
  \/ \E w \in Workers : JobValidate(w)
  \/ \E w \in Workers : JobMoveToFailed(w)
  \/ \E w \in Workers : JobDone(w)

RepeatSpec == Init /\ [][RepeatNext]_vars

\* =========================================================== process stop
\* The batch process stops (killed, power lost) while calls of
\* process_csv_file are running: its threads are gone, and so are their
\* connections with the transactions left open on them.  The directories and
\* the committed tables stay as they are.  A later run of the loader starts
\* from there (Submit).
Crash ==
  /\ regime = "batch"
  /\ hist.crashes < MaxCrashes
  /\ \E w \in Workers : wk[w].pc # "idle"
  /\ wk' = [w \in Workers |-> Idle]
  /\ hist' = [hist EXCEPT !.crashes = @ + 1]
  /\ UNCHANGED << run, sc, variant, regime, fs, puts, calls, data, meta >>

\* the batch loader with stops of its process
CrashInit ==
  /\ variant \in {"mysql", "sqlite"}
  /\ regime = "batch"
  /\ Fresh
  /\ run = NoRun
  /\ sc = NoCall

CrashNext ==
  \/ \E n \in Names, c \in Catalog : PutFile(n, c)
  \/ \E w \in Workers, n \in Names : Submit(w, n)
  \/ \E w \in Workers : ReadCsv(w)
  \/ \E w \in Workers : WriteTransaction(w)
  \/ \E w \in Workers : MoveProcessed(w)
  \/ \E w \in Workers : ExceptHandler(w)
  \/ \E w \in Workers : Return(w)
  \/ Crash

CrashSpec == CrashInit /\ [][CrashNext]_vars

\* ========================================================== load_all_files
\* One run of load_all_files (src/loader.py 202-265, src/src/loader.py
\* 206-269), seen from its main thread: process_csv_file is a pool task whose
\* outcome (True, False, or an exception out of the future) is an input.
RunFiles == 1..MaxFiles
RunCatalog ==
  { CsvFile(Req, << Row(10, 2, NULL, "") >>),
    CsvFile(NoClose, << Row(10, NULL, 2, "") >>),
    CsvFile(Full, << >>) }
Outcomes == {"True", "False", "raised"}

\* where process_csv_file leaves its file: in the processed directory when it
\* returns True; when it returns False in the failed directory, or still in
\* the raw directory (the rename of the except handler failed and was passed
\* over); an exception out of the call moved nothing
Leaves(out) ==
  CASE out = "True"   -> {"processed"}
    [] out = "False"  -> {"failed", "raw"}
    [] out = "raised" -> {"raw"}

\* the run when load_all_files is entered, the raw directory being dir
RunStart(dir) ==
  [pc |-> "find", dir |-> dir, csv_files |-> {}, checked |-> {},
   valid_files |-> << >>, nsub |-> 0,
   submits |-> [f \in RunFiles |-> 0],
   future |-> [f \in RunFiles |-> "none"],
   counted |-> {}, successful |-> 0, failed |-> 0, summary |-> << >>, ret |-> "none",
   where |-> [f \in RunFiles |-> IF f \in DOMAIN dir THEN "raw" ELSE "none"]]

RunInit ==
  /\ variant \in {"mysql", "sqlite"}
  /\ regime = "batch"
  /\ Fresh
  /\ sc = NoCall
  /\ \E S \in SUBSET RunFiles : \E dir \in [S -> RunCatalog] : run = RunStart(dir)

\* a return without a value (lines 206-209 and 219-221)
ReturnNone(r) == [r EXCEPT !.pc = "done", !.ret = "None"]

\* csv_files = self.find_csv_files(); if not csv_files: return
RunFind ==
  /\ run.pc = "find"
  /\ run' = IF DOMAIN run.dir = {} THEN ReturnNone(run)
            ELSE [run EXCEPT !.pc = "validate", !.csv_files = DOMAIN run.dir]
  /\ UNCHANGED << sc, mainvars >>

\* one turn of the validation loop; after the last one, if not valid_files: return
RunValidate(f) ==
  /\ run.pc = "validate"
  /\ f \in run.csv_files \ run.checked
  /\ LET v == IF validate_csv(run.dir[f]) THEN Append(run.valid_files, f)
              ELSE run.valid_files
         r == [run EXCEPT !.checked = @ \cup {f}, !.valid_files = v]
     IN run' = IF r.checked # r.csv_files THEN r
               ELSE IF v = << >> THEN ReturnNone(r)
               ELSE [r EXCEPT !.pc = "submit"]
  /\ UNCHANGED << sc, mainvars >>

\* executor.submit(self.process_csv_file, csv_file) for the next valid file
RunSubmit ==
  /\ run.pc = "submit"
  /\ LET f == run.valid_files[run.nsub + 1]
     IN run' = [run EXCEPT !.nsub = @ + 1,
                           !.submits[f] = @ + 1,
                           !.future[f] = "pending",
                           !.pc = IF run.nsub + 1 = Len(run.valid_files)
                                  THEN "collect" ELSE "submit"]
  /\ UNCHANGED << sc, mainvars >>

\* a pool thread finishes process_csv_file for f
TaskDone(f, out) ==
  /\ run.pc \in {"submit", "collect"}
  /\ run.future[f] = "pending"
  /\ \E dest \in Leaves(out) : run' = [run EXCEPT !.future[f] = out, !.where[f] = dest]
  /\ UNCHANGED << sc, mainvars >>

\* an exception out of the future is not counted at all
Count_dropRaised(r, out) ==
  CASE out = "True"   -> [r EXCEPT !.successful = @ + 1]
    [] out = "False"  -> [r EXCEPT !.failed = @ + 1]
    [] out = "raised" -> r

\* if future.result(): successful += 1 else: failed += 1; except: failed += 1
Count(r, out) ==
  CASE out = "True"   -> [r EXCEPT !.successful = @ + 1]
    [] out = "False"  -> [r EXCEPT !.failed = @ + 1]
    [] out = "raised" -> [r EXCEPT !.failed = @ + 1]

\* one turn of the as_completed loop; after the last one the summary with
\* the two counts is logged (lines 248-255)
RunCollect(f) ==
  /\ run.pc = "collect"
  /\ run.future[f] \in Outcomes
  /\ f \notin run.counted
  /\ LET r == [Count(run, run.future[f]) EXCEPT !.counted = @ \cup {f}]
     IN run' = IF Cardinality(r.counted) = Len(r.valid_files)
               THEN [r EXCEPT !.pc = "stats", !.summary = << r.successful, r.failed >>]
               ELSE r
  /\ UNCHANGED << sc, mainvars >>

\* if successful > 0: stats = db_manager.get_ticker_stats(table_name=...):
\* get_ticker_stats(self) of database.py takes no such argument (TypeError)
StatsCall(successful) == IF successful > 0 THEN "TypeError" ELSE "none"

\* the end of load_all_files: the statistics, then return successful, failed
RunStats ==
  /\ run.pc = "stats"
  /\ run' = [run EXCEPT !.pc = "done",
                        !.ret = IF StatsCall(run.successful) = "none" THEN "counts"
                                ELSE StatsCall(run.successful)]
  /\ UNCHANGED << sc, mainvars >>

RunNext ==
  \/ RunFind
  \/ \E f \in RunFiles : RunValidate(f)
  \/ RunSubmit
  \/ \E f \in RunFiles, out \in Outcomes : TaskDone(f, out)
  \/ \E f \in RunFiles : RunCollect(f)
  \/ RunStats

RunSpec == RunInit /\ [][RunNext]_vars

\* ========================================================= source routing
\* The source of one job of pipeline_jobs.py (lines 47-48): resolve_source on
\* the job's path and override, then get_source_tables on the result.
Alphabet == {" ", "f", "m", "p", "F"}
Strs == UNION {[1..k -> Alphabet] : k \in 0..MaxSrcLen}
Overrides == {None} \cup {Some(s) : s \in Strs}
SubDirs == {fmp, << "F", "m", "p" >>, << "f" >>}
Paths ==
  {FilePath(u, p) : u \in BOOLEAN,
                    p \in {<< FileName >>} \cup {<< d, FileName >> : d \in SubDirs}
                          \cup {<< d, fmp, FileName >> : d \in SubDirs}}

\* one call on the source functions, before it runs: its arguments, its
\* results still unset, and the module's mapping SOURCE_TABLES
SourceCall(p, src) ==
  [pc |-> "resolve", file_path |-> p, source |-> src, resolved |-> << >>,
   tables |-> [raised |-> "none", data |-> "", meta |-> ""],
   normalized |-> << >>, again |-> << >>, listed |-> << >>, registry |-> SOURCE_TABLES]

SourceInit ==
  /\ variant = "mysql"
  /\ regime = "queue"
  /\ Fresh
  /\ run = NoRun
  /\ \E p \in Paths, src \in Overrides : sc = SourceCall(p, src)

\* resolved_source = resolve_source(file_path, source)
ResolveSource ==
  /\ sc.pc = "resolve"
  /\ sc' = [sc EXCEPT !.pc = "tables",
                      !.resolved = resolve_source(sc.file_path, sc.source)]
  /\ UNCHANGED << run, mainvars >>

\* data_table, meta_table = get_source_tables(resolved_source)
GetSourceTables ==
  /\ sc.pc = "tables"
  /\ sc' = [sc EXCEPT !.pc = "done", !.tables = get_source_tables(Some(sc.resolved))]
  /\ UNCHANGED << run, mainvars >>

\* a call normalize_source(source)
NormalizeSource ==
  /\ sc.pc = "resolve"
  /\ sc' = [sc EXCEPT !.pc = "normalized", !.normalized = normalize_source(sc.source)]
  /\ UNCHANGED << run, mainvars >>

\* a call normalize_source on the result of the first
NormalizeAgain ==
  /\ sc.pc = "normalized"
  /\ sc' = [sc EXCEPT !.pc = "renormalized",
                      !.again = normalize_source(Some(sc.normalized))]
  /\ UNCHANGED << run, mainvars >>

\* a call get_source_tables(source) on the name as given
LookUpTables ==
  /\ sc.pc = "resolve"
  /\ sc' = [sc EXCEPT !.pc = "looked", !.tables = get_source_tables(sc.source)]
  /\ UNCHANGED << run, mainvars >>

\* a call list_sources()
ListSources ==
  /\ sc.pc = "resolve"
  /\ sc' = [sc EXCEPT !.pc = "listed", !.listed = list_sources]
  /\ UNCHANGED << run, mainvars >>

SourceNext ==
  \/ ResolveSource
  \/ GetSourceTables
  \/ NormalizeSource
  \/ NormalizeAgain
  \/ LookUpTables
  \/ ListSources

SourceSpec == SourceInit /\ [][SourceNext]_vars

\* ============================================================ validate_csv
\* One call of validate_csv on a file (src/loader.py 68-91, src/src/loader.py
\* 71-94).  pd.read_csv(nrows=5) raises on a file without a header line (no
\* column at all); a first row lacking makes iloc[0] raise; pd.to_datetime
\* raises on an unparseable cell and returns NaT, without raising, for NaN.
\* Every exception is caught and turned into False.
SniffDates == {10, BadDate, NoDate}
SniffRows ==
  {<< >>} \cup {<< Row(d, 1, 1, "") >> : d \in SniffDates}
          \cup {<< Row(d, 1, 1, ""), Row(e, 2, 2, "") >> : d \in SniffDates, e \in SniffDates}
SniffCatalog == {CsvFile(cols, rows) : cols \in SUBSET WithSym, rows \in SniffRows}

ValidateCall(c) == [pc |-> "validate", file |-> c, ret |-> "none"]

ValidateInit ==
  /\ variant \in {"mysql", "sqlite"}
  /\ regime = "batch"
  /\ Fresh
  /\ run = NoRun
  /\ \E c \in SniffCatalog : sc = ValidateCall(c)

\* loader.validate_csv(file_path)
Validate ==
  /\ sc.pc = "validate"
  /\ sc' = [sc EXCEPT !.pc = "done",
                      !.ret = IF validate_csv(sc.file) THEN "True" ELSE "False"]
  /\ UNCHANGED << run, mainvars >>

ValidateNext == Validate

ValidateSpec == ValidateInit /\ [][ValidateNext]_vars

\* ======================================================== entity key stamp
\* ticker = os.path.basename(csv_path).replace('.csv', '').upper()
\* (src/loader.py 95, src/src/loader.py 98) on the file names the pipeline
\* accepts.  A name is the sequence of its characters, built from pieces.
Pieces == { << "a" >>, << "b" >>, << ".", "c", "s", "v" >>, << ".", "C", "S", "V" >>,
            << ".", "C", "s", "v" >> }
RECURSIVE Flatten(_)
Flatten(ps) == IF ps = << >> THEN << >> ELSE Head(ps) \o Flatten(Tail(ps))
FileNames == {Flatten(ps) : ps \in UNION {[1..k -> Pieces] : k \in 1..MaxPieces}}

DotCsv == << ".", "c", "s", "v" >>
UpperOf(ch) ==
  CASE ch = "a" -> "A" [] ch = "b" -> "B" [] ch = "c" -> "C" [] ch = "s" -> "S"
    [] ch = "v" -> "V" [] OTHER -> ch
LowerOf(ch) ==
  CASE ch = "A" -> "a" [] ch = "B" -> "b" [] ch = "C" -> "c" [] ch = "S" -> "s"
    [] ch = "V" -> "v" [] OTHER -> ch
\* str.upper(), str.lower()
Upper(s) == [i \in 1..Len(s) |-> UpperOf(s[i])]
LowerName(s) == [i \in 1..Len(s) |-> LowerOf(s[i])]

\* str.replace('.csv', ''): every occurrence, left to right, case-sensitive
RECURSIVE RemoveDotCsv(_)
RemoveDotCsv(s) ==
  IF Len(s) < Len(DotCsv) THEN s
  ELSE IF SubSeq(s, 1, Len(DotCsv)) = DotCsv
  THEN RemoveDotCsv(SubSeq(s, Len(DotCsv) + 1, Len(s)))
  ELSE << Head(s) >> \o RemoveDotCsv(Tail(s))

\* the ticker process_csv_file derives from the file name
ticker_of(name) == Upper(RemoveDotCsv(name))

\* pathlib: the suffix starts at the last dot of the name, unless that dot is
\* the first or the last character; the stem is what precedes the suffix
LastDot(name) ==
  IF \E i \in 1..Len(name) : name[i] = "."
  THEN CHOOSE i \in 1..Len(name) : name[i] = "." /\ \A j \in (i + 1)..Len(name) : name[j] # "."
  ELSE 0
HasSuffix(name) == LastDot(name) > 1 /\ LastDot(name) < Len(name)
suffix(name) == IF HasSuffix(name) THEN SubSeq(name, LastDot(name), Len(name)) ELSE << >>
stem(name) == IF HasSuffix(name) THEN SubSeq(name, 1, LastDot(name) - 1) ELSE name

\* enqueue_file: file_path.suffix.lower() != ".csv" -> return
QueueAccepts(name) == LowerName(suffix(name)) = DotCsv
\* find_csv_files: glob '*.csv' (names that end in .csv and do not start
\* with a dot)
GlobAccepts(name) ==
  /\ Len(name) >= Len(DotCsv)
  /\ SubSeq(name, Len(name) - Len(DotCsv) + 1, Len(name)) = DotCsv
  /\ name[1] # "."
Accepts(r, name) == IF r = "queue" THEN QueueAccepts(name) ELSE GlobAccepts(name)

TickerCall(name) == [pc |-> "ticker", name |-> name, ret |-> << >>]

TickerInit ==
  /\ variant \in {"mysql", "sqlite"}
  /\ regime \in {"batch", "queue"}
  /\ Fresh
  /\ run = NoRun
  /\ \E name \in FileNames : Accepts(regime, name) /\ sc = TickerCall(name)

\* the first statement of process_csv_file
StampTicker ==
  /\ sc.pc = "ticker"
  /\ sc' = [sc EXCEPT !.pc = "done", !.ret = ticker_of(sc.name)]
  /\ UNCHANGED << run, mainvars >>

TickerNext == StampTicker

TickerSpec == TickerInit /\ [][TickerNext]_vars

\* ============================================================ write block
\* The write of one call of process_csv_file followed statement by statement
\* (src/loader.py 128-181, src/src/loader.py 132-185): get_connection, one
\* executemany per batch, the metadata upsert, conn.commit(), close.  Any
\* statement may raise; control then leaves for the except handler.
WriteRows(n) == [i \in 1..n |-> Row(8 + i, i, i, "")]
WriteCatalog == {CsvFile(cols, WriteRows(n)) : cols \in {Full, Req, WithSym}, n \in 1..MaxRows}

WriteCall(v, c) ==
  [pc |-> "connect", content |-> c, df |-> DataFrame(v, c, "A"), done |-> 0,
   pending |-> << >>, log |-> << >>, conn |-> "none", ret |-> "none"]

WriteInit ==
  /\ variant \in {"mysql", "sqlite"}
  /\ regime = "batch"
  /\ Fresh
  /\ run = NoRun
  /\ \E c \in WriteCatalog : sc = WriteCall(variant, c)

\* the metadata upsert inside the batch loop
WriteStep_metaPerBatch(stmt, ok, more) ==
  IF ~ok THEN "except"
  ELSE CASE stmt = "connect" -> "batch"
         [] stmt = "batch"   -> "meta"
         [] stmt = "meta"    -> IF more THEN "batch" ELSE "commit"
         [] stmt = "commit"  -> "close"

\* the statement that follows each statement of the write block; more: the
\* batch loop has batches left
WriteStep(stmt, ok, more) ==
  IF ~ok THEN "except"
  ELSE CASE stmt = "connect" -> "batch"
         [] stmt = "batch"   -> IF more THEN "batch" ELSE "meta"
         [] stmt = "meta"    -> "commit"
         [] stmt = "commit"  -> "close"

Issued(stmt, ok) == [stmt |-> stmt, ok |-> ok]

\* conn = db_manager.get_connection(); cursor = conn.cursor()
Connect ==
  /\ sc.pc = "connect"
  /\ \E ok \in BOOLEAN :
       sc' = [sc EXCEPT !.pc = WriteStep("connect", ok, TRUE),
                        !.conn = IF ok THEN "open" ELSE "none"]
  /\ UNCHANGED << run, mainvars >>

\* one turn of the batch loop: batch[columns] (KeyError in the mysql loader
\* when a listed column is missing), then cursor.executemany
ExecuteMany ==
  /\ sc.pc = "batch"
  /\ \E ok \in BOOLEAN :
       /\ MissingColumn(variant, sc.content.columns) => ~ok
       /\ sc' = [sc EXCEPT
                   !.pc = WriteStep("batch", ok, sc.done + 1 < NumBatches(sc.df)),
                   !.done = IF ok THEN @ + 1 ELSE @,
                   !.pending = IF ok
                               THEN ExecuteBatch(<< >>, @, Batch(sc.df, sc.done + 1),
                                                 UpdateColumns(variant, sc.content.columns)).pending
                               ELSE @,
                   !.log = IF MissingColumn(variant, sc.content.columns) THEN @
                           ELSE Append(@, Issued("batch", ok))]
  /\ UNCHANGED << run, mainvars >>

\* cursor.execute(metadata_sql, (ticker, first_date, last_date, total_rows))
ExecuteMeta ==
  /\ sc.pc = "meta"
  /\ \E ok \in BOOLEAN :
       sc' = [sc EXCEPT !.pc = WriteStep("meta", ok, sc.done < NumBatches(sc.df)),
                        !.log = Append(@, Issued("meta", ok))]
  /\ UNCHANGED << run, mainvars >>

\* conn.commit()
Commit ==
  /\ sc.pc = "commit"
  /\ \E ok \in BOOLEAN :
       sc' = [sc EXCEPT !.pc = WriteStep("commit", ok, FALSE),
                        !.log = Append(@, Issued("commit", ok))]
  /\ UNCHANGED << run, mainvars >>

\* cursor.close(); conn.close(); the move to processed; return True (the
\* except handler and False when the move raises)
CloseReturn ==
  /\ sc.pc = "close"
  /\ \E osok \in BOOLEAN :
       sc' = [sc EXCEPT !.pc = "done", !.conn = "closed", !.pending = << >>,
                        !.ret = IF osok THEN "True" ELSE "False"]
  /\ UNCHANGED << run, mainvars >>

\* the except handler: the file is moved to failed, return False
WriteExcept ==
  /\ sc.pc = "except"
  /\ sc' = [sc EXCEPT !.pc = "done", !.pending = << >>, !.ret = "False"]
  /\ UNCHANGED << run, mainvars >>

WriteNext ==
  \/ Connect
  \/ ExecuteMany
  \/ ExecuteMeta
  \/ Commit
  \/ CloseReturn
  \/ WriteExcept

WriteSpec == WriteInit /\ [][WriteNext]_vars

\* ================================================================ watcher
\* The watcher (src/pipeline_watch.py for the mysql deployment,
\* src/src/pipeline_watch.py for the sqlite one): CSVEventHandler.on_created
\* and on_moved, each with its call of enqueue_file.  The watcher of the mysql
\* deployment is started with a source override (--source) or without one and
\* passes it to every job; the watcher of the sqlite deployment has none and
\* enqueues the path alone.
WatchNames == { << "a" >> \o DotCsv, << "a", ".", "C", "S", "V" >>, << "a" >> }
WatchSources(v) == IF v = "mysql" THEN {None, Some(fmp)} ELSE {None}
Events ==
  [kind : {"created"}, is_directory : BOOLEAN, src_path : WatchNames, dest_path : {<< >>}]
  \cup [kind : {"moved"}, is_directory : BOOLEAN, src_path : WatchNames, dest_path : WatchNames]
NoEvent == [kind |-> "none", is_directory |-> FALSE, src_path |-> << >>, dest_path |-> << >>]

job_timeout == 1800

\* queue.enqueue(process_csv_job, str(file_path), source, job_timeout=1800)
\* and, in src/src/pipeline_watch.py, without the source
Job(v, file_path, source) ==
  [func |-> "process_csv_job",
   args |-> IF v = "mysql" THEN << file_path, source >> ELSE << file_path >>,
   job_timeout |-> job_timeout]

\* enqueue_file: the queue after the call; exists: the paths that exist
enqueue_file(v, queue, exists, file_path, source) ==
  IF LowerName(suffix(file_path)) # DotCsv THEN queue
  ELSE IF file_path \notin exists THEN queue
  ELSE Append(queue, Job(v, file_path, source))

Watcher(src, exists) ==
  [pc |-> "watching", source |-> src, exists |-> exists, queue |-> << >>,
   handled |-> 0, event |-> NoEvent]

WatchInit ==
  /\ variant \in {"mysql", "sqlite"}
  /\ regime = "queue"
  /\ Fresh
  /\ run = NoRun
  /\ \E src \in WatchSources(variant), exists \in SUBSET WatchNames :
       sc = Watcher(src, exists)

\* on_created: if event.is_directory: return; enqueue_file(.., event.src_path, ..)
OnCreated(e) ==
  /\ sc.pc = "watching"
  /\ sc.handled < MaxEvents
  /\ e.kind = "created"
  /\ sc' = [sc EXCEPT !.handled = @ + 1, !.event = e,
                      !.queue = IF e.is_directory THEN @
                                ELSE enqueue_file(variant, @, sc.exists, e.src_path, sc.source)]
  /\ UNCHANGED << run, mainvars >>

\* on_moved: if event.is_directory: return; enqueue_file(.., event.dest_path, ..)
OnMoved(e) ==
  /\ sc.pc = "watching"
  /\ sc.handled < MaxEvents
  /\ e.kind = "moved"
  /\ sc' = [sc EXCEPT !.handled = @ + 1, !.event = e,
                      !.queue = IF e.is_directory THEN @
                                ELSE enqueue_file(variant, @, sc.exists, e.dest_path, sc.source)]
  /\ UNCHANGED << run, mainvars >>

WatchNext ==
  \/ \E e \in Events : OnCreated(e)
  \/ \E e \in Events : OnMoved(e)

WatchSpec == WatchInit /\ [][WatchNext]_vars

\* ======================================================== worker launcher
\* main of src/src/pipeline/worker.py: with --num-workers <= 1 run_worker runs
\* in the launcher's own process; otherwise one multiprocessing.Process per
\* index is started, then joined in order.  A worker leaves worker.work() on
\* its own at any time; KeyboardInterrupt during the joins terminates all.
NumWorkers == -1..MaxWorkers
NoWorker == [started |-> FALSE, with_scheduler |-> FALSE, state |-> "none"]

\* every process is started with the scheduler
with_scheduler_all(index) == TRUE

\* args=(queue_name, index == 0)
with_scheduler(index) == index = 0

\* run_worker(queue_name, with_scheduler): worker.work(with_scheduler=...)
run_worker(sched) == [started |-> TRUE, with_scheduler |-> sched, state |-> "running"]

Launcher(n) ==
  [pc |-> "main", num_workers |-> n, index |-> 0, processes |-> << >>,
   own |-> NoWorker, joined |-> 0]

LaunchInit ==
  /\ variant = "sqlite"
  /\ regime = "queue"
  /\ Fresh
  /\ run = NoRun
  /\ \E n \in NumWorkers : sc = Launcher(n)

\* if args.num_workers <= 1: run_worker(queue_name, with_scheduler=True)
LaunchMain ==
  /\ sc.pc = "main"
  /\ sc' = IF sc.num_workers <= 1
           THEN [sc EXCEPT !.pc = "own", !.own = run_worker(TRUE)]
           ELSE [sc EXCEPT !.pc = "start"]
  /\ UNCHANGED << run, mainvars >>

\* one turn of the loop over range(args.num_workers): Process(...).start()
StartProcess ==
  /\ sc.pc = "start"
  /\ sc' = [sc EXCEPT !.processes = Append(@, run_worker(with_scheduler(sc.index))),
                      !.index = @ + 1,
                      !.pc = IF sc.index + 1 = sc.num_workers THEN "join" ELSE "start"]
  /\ UNCHANGED << run, mainvars >>

\* the worker of a started process returns from worker.work()
WorkerExit(i) ==
  /\ i \in 1..Len(sc.processes)
  /\ sc.processes[i].state = "running"
  /\ sc' = [sc EXCEPT !.processes[i].state = "exited"]
  /\ UNCHANGED << run, mainvars >>

\* the worker in the launcher's own process returns: return 0
OwnExit ==
  /\ sc.pc = "own"
  /\ sc' = [sc EXCEPT !.pc = "done", !.own.state = "exited"]
  /\ UNCHANGED << run, mainvars >>

\* one turn of: for process in processes: process.join()
JoinProcess ==
  /\ sc.pc = "join"
  /\ sc.processes[sc.joined + 1].state = "exited"
  /\ sc' = [sc EXCEPT !.joined = @ + 1,
                      !.pc = IF sc.joined + 1 = Len(sc.processes) THEN "done" ELSE "join"]
  /\ UNCHANGED << run, mainvars >>

\* except KeyboardInterrupt: terminate every process, then join them all
Interrupt ==
  /\ sc.pc = "join"
  /\ sc' = [sc EXCEPT !.pc = "done", !.joined = Len(sc.processes),
                      !.processes = [i \in 1..Len(sc.processes) |->
                                       [sc.processes[i] EXCEPT !.state = "exited"]]]
  /\ UNCHANGED << run, mainvars >>

LaunchNext ==
  \/ LaunchMain
  \/ StartProcess
  \/ \E i \in 1..MaxWorkers : WorkerExit(i)
  \/ OwnExit
  \/ JoinProcess
  \/ Interrupt

LaunchSpec == LaunchInit /\ [][LaunchNext]_vars

\* ================================================================ properties
WriteFailure == {"connect", "batch", "meta", "commit"}
InDir(d, name, id) == name \in DOMAIN d /\ d[name].id = id

\* C1: the committed tables change only in the commit step of a call whose
\* transaction holds every batch of the file and the metadata upsert, and then
\* all of them are applied at once; a call whose write failed (connection,
\* batch k of n, metadata upsert or commit) has committed nothing.
C1_NoneOnFailure ==
  \A w \in Workers : wk[w].failedAt \in WriteFailure => ~wk[w].committed

C1_AllOrNothing ==
  /\ []C1_NoneOnFailure
  /\ [][(data' # data \/ meta' # meta) =>
          \E w \in Workers :
            /\ wk[w].pc = "write" /\ wk'[w].committed
            /\ data' = executemany(data, wk[w].df, UpdCols(w))
            /\ Ticker(wk[w].path) \in DOMAIN meta']_vars

\* a call has returned False after batch 2 failed; the tables are still empty
C1_Witness ==
  \E w \in Workers :
    /\ wk[w].pc = "ret" /\ wk[w].result = "False"
    /\ wk[w].failedAt = "batch" /\ wk[w].failedBatch = 2
    /\ data = << >> /\ DOMAIN meta = {}

\* C2: committing the file that was committed last (same name, same content)
\* leaves the data table and the metadata table as they were, and the
\* metadata total_rows is the file's row count.
C2_Idempotent ==
  [][\A w \in Workers :
       ( /\ wk[w].pc = "write" /\ wk'[w].committed
         /\ hist.lastCommit = [name |-> wk[w].path, content |-> wk[w].content] )
       => /\ data' = data
          /\ meta' = meta
          /\ meta'[Ticker(wk[w].path)].total_rows = Len(wk[w].content.rows)]_vars

C2_Witness == hist.repeat /\ Len(data) > 0

\* C3 (as claimed): one row per (entity_key, date), each row carrying the
\* value columns of the most recently committed file that holds its date.
C3_Claim ==
  /\ \A i, j \in 1..Len(data) :
       (data[i].symbol = data[j].symbol /\ data[i].date = data[j].date) => i = j
  /\ \A i \in 1..Len(data) :
       /\ << data[i].symbol, data[i].date >> \in DOMAIN hist.expect
       /\ hist.expect[<< data[i].symbol, data[i].date >>]
            = [close |-> data[i].close, vwap |-> data[i].vwap]

\* C4: no file (one dropped file, whatever its name) is in the processed
\* directory and in the failed directory at once.
C4_OneTerminal ==
  \A n1 \in DOMAIN fs.processed, n2 \in DOMAIN fs.failed :
    fs.processed[n1].id # fs.failed[n2].id

\* a second worker handled a file and failed while the file is in processed
C4_Witness ==
  \E w \in Workers, n \in DOMAIN fs.processed :
    /\ wk[w].pc = "ret" /\ wk[w].result = "False"
    /\ wk[w].path = n /\ wk[w].fid = fs.processed[n].id

\* C5 (as claimed): when process_csv_file or process_csv_job has returned True
\* or False for a file that existed when it started, the file is not in the
\* raw directory.
C5_Claim ==
  \A w \in Workers :
    ( \/ wk[w].pc = "ret"
      \/ /\ wk[w].pc = "jdone"
         /\ wk[w].result \in {"True", "False"}
         /\ wk[w].failedAt # "missing" )
    => ~InDir(fs.raw, wk[w].path, wk[w].fid)

\* C6: a file enters the processed directory only by the move step of a call
\* that has committed its transaction.
C6_MoveAfterCommit ==
  [][fs'.processed # fs.processed =>
       \E w \in Workers :
         /\ wk[w].pc = "move" /\ wk[w].committed
         /\ wk'[w].moved = "processed"]_vars

C6_Witness ==
  \E w \in Workers :
    /\ wk[w].pc = "ret" /\ wk[w].moved = "processed" /\ wk[w].committed
    /\ InDir(fs.processed, wk[w].path, wk[w].fid)

\* C7 (as claimed): a call that moved its file to the failed directory has
\* committed nothing.
C7_Claim ==
  \A w \in Workers : wk[w].moved = "failed" => ~wk[w].committed

\* C8 (as claimed): when a database operation of the write failed,
\* process_csv_file has returned False, the file is not in the processed
\* directory and it is in the failed directory.
C8_Claim ==
  \A w \in Workers :
    (wk[w].pc = "ret" /\ wk[w].failedAt \in WriteFailure)
    => /\ wk[w].result = "False"
       /\ ~InDir(fs.processed, wk[w].path, wk[w].fid)
       /\ InDir(fs.failed, wk[w].path, wk[w].fid)

\* C9: an entity has a metadata row exactly when a file of it was committed;
\* its first_date is the minimum and its last_date the maximum date over all
\* committed files of the entity, and total_rows is the row count of the
\* file committed last.
C9_Metadata ==
  \A t \in Tickers :
    /\ t \in DOMAIN meta <=> hist.fileDates[t] # {}
    /\ t \in DOMAIN meta =>
         /\ DateOf(variant, meta[t].first_date) = SetMin(hist.fileDates[t])
         /\ DateOf(variant, meta[t].last_date) = SetMax(hist.fileDates[t])
         /\ meta[t].total_rows = hist.lastCount[t]

\* the file committed last starts and ends inside the recorded range
C9_Witness ==
  /\ "A" \in DOMAIN meta
  /\ hist.lastCommit.name = "a.csv"
  /\ DateOf(variant, meta["A"].first_date)
       < SetMin({hist.lastCommit.content.rows[i].date :
                   i \in 1..Len(hist.lastCommit.content.rows)})
  /\ meta["A"].total_rows = Len(hist.lastCommit.content.rows)
  /\ meta["A"].total_rows < Cardinality(hist.fileDates["A"])

\* C10 (as claimed): for every entity of the metadata table, first_date <=
\* last_date and both are dates of data rows committed under that entity key.
C10_Claim ==
  \A t \in DOMAIN meta :
    /\ DateOf(variant, meta[t].first_date) <= DateOf(variant, meta[t].last_date)
    /\ DateOf(variant, meta[t].first_date) \in hist.keyDates[t]
    /\ DateOf(variant, meta[t].last_date) \in hist.keyDates[t]

\* C11 (as claimed): every entity key that has a row in the committed data
\* table has a row in the committed metadata table.
C11_Claim ==
  \A i \in 1..Len(data) : data[i].symbol \in DOMAIN meta

\* C12 (as claimed): a file whose header lacks a required column is rejected
\* by validate_csv, and no call of process_csv_file has parsed such a file in
\* full or gone on to the database with it.
C12_Claim ==
  /\ \A c \in Catalog : ~(Req \subseteq c.columns) => ~validate_csv(c)
  /\ \A w \in Workers :
       wk[w].pc \in {"write", "move"} => Req \subseteq wk[w].content.columns

\* C13: in a run of load_all_files the valid files are exactly the
\* discovered files that pass validate_csv; each is submitted to
\* process_csv_file once, an invalid one never; when the run reports its
\* counts (the logged summary), successful + failed is the number of valid
\* files and successful is the number of tasks that returned True.
ValidSet == {run.valid_files[i] : i \in 1..Len(run.valid_files)}

C13_Counts ==
  /\ \A f \in RunFiles : run.submits[f] <= 1
  /\ \A f \in RunFiles : run.submits[f] = 1 => f \in ValidSet
  /\ run.pc \in {"submit", "collect", "stats", "done"} =>
       /\ ValidSet = {f \in DOMAIN run.dir : validate_csv(run.dir[f])}
       /\ Cardinality(ValidSet) = Len(run.valid_files)
  /\ run.summary # << >> =>
       /\ \A f \in ValidSet : run.submits[f] = 1
       /\ run.summary[1] + run.summary[2] = Len(run.valid_files)
       /\ run.summary[1] = Cardinality({f \in ValidSet : run.future[f] = "True"})

\* a finished run with an invalid file, a success, a False and an exception
C13_Witness ==
  /\ run.summary # << >>
  /\ \E f \in DOMAIN run.dir : ~validate_csv(run.dir[f])
  /\ run.summary[1] >= 1 /\ run.summary[2] >= 1
  /\ \E f \in ValidSet : run.future[f] = "raised"

\* C14 (as claimed): when two deliveries of the job of one file have both
\* finished (the only file ever dropped, so nothing else touched it), the file
\* is in exactly one of processed and failed, it is in processed exactly when
\* a delivery committed its rows, and the tables hold what one ingest of the
\* file leaves.
DeliveredTwice(w1, w2) ==
  /\ w1 # w2
  /\ puts = 1
  /\ wk[w1].pc = "jdone" /\ wk[w2].pc = "jdone"
  /\ wk[w1].path = wk[w2].path
  /\ wk[w1].fid = 1 /\ wk[w2].fid = 1
SingleIngest(name, c) ==
  executemany(<< >>, DataFrame(variant, c, Ticker(name)), UpdateColumns(variant, c.columns))
C14_Claim ==
  \A w1, w2 \in Workers :
    DeliveredTwice(w1, w2) =>
      LET name == wk[w1].path
          inProcessed == InDir(fs.processed, name, 1)
          inFailed == InDir(fs.failed, name, 1)
      IN /\ inProcessed # inFailed
         /\ inProcessed <=> (1 \in hist.ingested)
         /\ IF 1 \in hist.ingested
            THEN data = SingleIngest(name, hist.lastCommit.content)
            ELSE data = << >>

\* C15 (as claimed): when the calls of two workers on two different files of
\* one entity have both committed, the data table holds one row per
\* (entity_key, date), every row carries the values of the transaction that
\* committed last on its date, and the entity's metadata first_date and
\* last_date are the minimum and the maximum date over both files.
BothCommitted(w1, w2) ==
  /\ w1 # w2
  /\ wk[w1].committed /\ wk[w2].committed
  /\ wk[w1].path = wk[w2].path
  /\ wk[w1].fid # wk[w2].fid
C15_Claim ==
  \A w1, w2 \in Workers :
    BothCommitted(w1, w2) =>
      /\ \A i, j \in 1..Len(data) :
           (data[i].symbol = data[j].symbol /\ data[i].date = data[j].date) => i = j
      /\ \A i \in 1..Len(data) :
           LET key == << data[i].symbol, data[i].date >>
           IN /\ key \in DOMAIN hist.expect
              /\ data[i].close = hist.expect[key].close
              /\ data[i].vwap = hist.expect[key].vwap
      /\ LET t == Ticker(wk[w1].path)
         IN /\ t \in DOMAIN meta
            /\ DateOf(variant, meta[t].first_date) = SetMin(hist.fileDates[t])
            /\ DateOf(variant, meta[t].last_date) = SetMax(hist.fileDates[t])

\* C16 (as claimed): when process_csv_file returns, the connection it
\* acquired is closed (or it never got one).
C16_Claim ==
  \A w \in Workers : wk[w].pc = "ret" => wk[w].conn \in {"none", "closed"}

\* C17 (as claimed): a job that met a per-file error (the file failed
\* validation, or process_csv_file returned False for it) ends with the
\* boolean False, not with an exception.
C17_Claim ==
  \A w \in Workers :
    (wk[w].pc = "jdone" /\ wk[w].failedAt \in {"validate", "process"})
      => wk[w].result = "False"

\* C18: a job dequeued for a file that is not there ends at once with the
\* boolean False, and the step changes nothing: the directories and their
\* files, the committed tables and the metadata are as before, no directory
\* is created and no connection is opened.
C18_MissingFile ==
  [][\A w \in Workers :
       (wk[w].pc = "idle" /\ wk'[w].mode = "job" /\ ~InRaw(fs, wk'[w].path))
         => /\ wk'[w].pc = "jdone"
            /\ wk'[w].result = "False"
            /\ wk'[w].conn = "none"
            /\ fs' = fs
            /\ data' = data
            /\ meta' = meta]_vars

\* a job found its file missing while the terminal directories did not exist
C18_Witness ==
  \E w \in Workers :
    /\ wk[w].pc = "jdone"
    /\ wk[w].failedAt = "missing"
    /\ wk[w].result = "False"
    /\ ~fs.made

\* C19: a job whose resolved source is not registered ends in the step that
\* looks the source up: the file's content is not read, no connection is
\* opened, no directory is created, the file is where it was and the tables
\* are unchanged.
C19_UnknownSource ==
  [][\A w \in Workers :
       (wk[w].pc = "idle" /\ wk'[w].failedAt = "source")
         => /\ wk'[w].pc = "jdone"
            /\ wk'[w].result = "raised"
            /\ wk'[w].content = Idle.content
            /\ wk'[w].conn = "none"
            /\ InDir(fs'.raw, wk'[w].path, wk'[w].fid)
            /\ fs' = fs
            /\ data' = data
            /\ meta' = meta]_vars

\* a job was rejected for its source with its file present
C19_Witness ==
  \E w \in Workers :
    /\ wk[w].pc = "jdone"
    /\ wk[w].failedAt = "source"
    /\ InDir(fs.raw, wk[w].path, wk[w].fid)
    /\ ~fs.made

\* C20 (as claimed): resolve_source returns the normalized override whenever
\* an override is given (any str, the empty one included); without one, the
\* first directory below the root when that is a registered source, and
\* 'tiingo' in every other case.
UnderRegistered(p) ==
  p.under /\ Len(p.parts) > 1 /\ p.parts[1] \in DOMAIN SOURCE_TABLES
Inferred(p) == IF UnderRegistered(p) THEN p.parts[1] ELSE tiingo
C21_Claim ==
  sc.pc = "normalized" =>
    sc.normalized = IF ~sc.source.given \/ Strip(sc.source.s) = << >>
                    THEN tiingo
                    ELSE Lower(Strip(sc.source.s))

\* C22: get_source_tables(s) returns the data and metadata table names
\* registered for normalize_source(s) when that name is one of 'tiingo', 'fmp'
\* and 'yfinance', and raises ValueError otherwise; list_sources returns the
\* three registered names, each once, in ascending order; after either call
\* the mapping is what it was.
TablesOf(name) ==
  CASE name = tiingo -> << "ticker_data", "ticker_metadata" >>
    [] name = fmp -> << "ticker_data_fmp", "ticker_metadata_fmp" >>
    [] name = yfinance -> << "ticker_data_yfinance", "ticker_metadata_yfinance" >>
C22_Registry ==
  /\ sc.pc = "looked" =>
       /\ IF normalize_source(sc.source) \in {tiingo, fmp, yfinance}
          THEN /\ sc.tables.raised = "none"
               /\ << sc.tables.data, sc.tables.meta >> = TablesOf(normalize_source(sc.source))
          ELSE sc.tables.raised = "ValueError"
       /\ sc.registry = SOURCE_TABLES
  /\ sc.pc = "listed" =>
       /\ {sc.listed[i] : i \in 1..Len(sc.listed)} = {tiingo, fmp, yfinance}
       /\ \A i, j \in 1..Len(sc.listed) : i < j => StrBefore(sc.listed[i], sc.listed[j])
       /\ sc.registry = SOURCE_TABLES

\* a look-up under a name that normalization changes into a registered one
C22_Witness ==
  /\ sc.pc = "looked"
  /\ sc.source.given
  /\ sc.source.s # normalize_source(sc.source)
  /\ sc.tables.raised = "none"
  /\ sc.tables.data = "ticker_data_fmp"

\* C23 (as claimed): a queue job on a file that was there, the only delivery
\* ever made, with a registered source: its terminal directories are the
\* subdirectories of the processed and failed roots named after a registered
\* source, and the file ends under its own name in the processed one when the
\* job succeeded and in the failed one when it did not.
C23_Claim ==
  \A w \in Workers :
    (wk[w].pc = "jdone" /\ wk[w].fid = 1 /\ puts = 1 /\ calls = 1
       /\ wk[w].failedAt # "source")
      => /\ wk[w].sub \in DOMAIN SOURCE_TABLES
         /\ IF wk[w].result = "True"
            THEN InDir(fs.processed, wk[w].path, 1) /\ ~InRaw(fs, wk[w].path)
            ELSE InDir(fs.failed, wk[w].path, 1) /\ ~InRaw(fs, wk[w].path)

\* C24 (as claimed), batch mode: after a run of load_all_files every file of
\* the directory that has a header and no data row is in the failed
\* directory, and process_csv_file was never called on it.
C24_Claim ==
  run.pc = "done" =>
    \A f \in DOMAIN run.dir :
      run.dir[f].rows = << >> => (run.where[f] = "failed" /\ run.submits[f] = 0)

\* C25 (as claimed): after a run of load_all_files every file the run
\* discovered is in the processed directory or in the failed directory.
C25_Claim ==
  run.pc = "done" =>
    \A f \in run.csv_files : run.where[f] \in {"processed", "failed"}

\* C26: in batch mode with one file dropped and the run's call on it running, a
\* stop of the process changes neither the directories nor the committed
\* tables and leaves the file in the raw directory, still passing
\* validate_csv, so that the next run submits it again; and when a call on the
\* file returns True after a stop, the data table, the metadata and the
\* place of the file are those of one uninterrupted ingest of the file.
OnlyCall(w) ==
  /\ wk[w].pc \in {"read", "write", "move"}
  /\ \A v \in Workers \ {w} : wk[v].pc = "idle"
RowDates(c) == {c.rows[i].date : i \in 1..Len(c.rows)}
C26_Recovery ==
  /\ [][hist'.crashes > hist.crashes =>
          /\ fs' = fs /\ data' = data /\ meta' = meta
          /\ \A w \in Workers :
               (OnlyCall(w) /\ puts = 1 /\ calls = 1) =>
                 /\ InDir(fs'.raw, wk[w].path, 1)
                 /\ validate_csv(fs'.raw[wk[w].path].content)
                 /\ wk'[w].pc = "idle"]_vars
  /\ [](\A w \in Workers :
          (regime = "batch" /\ puts = 1 /\ hist.crashes > 0
             /\ wk[w].pc = "ret" /\ wk[w].result = "True")
            => LET c == hist.lastCommit.content
                   t == Ticker(wk[w].path)
               IN /\ data = SingleIngest(wk[w].path, c)
                  /\ DOMAIN meta = {t}
                  /\ meta[t] = [first_date |-> MetaDate(variant, SetMin(RowDates(c))),
                                last_date  |-> MetaDate(variant, SetMax(RowDates(c))),
                                total_rows |-> Len(c.rows)]
                  /\ InDir(fs.processed, wk[w].path, 1)
                  /\ ~InRaw(fs, wk[w].path)
                  /\ fs.failed = NoFiles)

\* the process stopped after the commit and before the move, and the next
\* run's call on the file has returned True
C26_Witness ==
  \E w \in Workers :
    /\ regime = "batch" /\ puts = 1 /\ hist.crashes > 0
    /\ wk[w].pc = "ret" /\ wk[w].result = "True"
    /\ hist.repeat
    /\ Len(hist.lastCommit.content.rows) > 1

\* C27 (as claimed): every run of load_all_files ends by returning its two
\* counts: with no file discovered, with no file valid, and with files
\* submitted whatever their outcomes.
C27_Claim == run.pc = "done" => run.ret = "counts"

\* C28 (as claimed): validate_csv returns True or False, and True exactly
\* when every required column is present and the file has a first data row
\* whose date is there and parses.
C28_Claim ==
  sc.pc = "done" =>
    /\ sc.ret \in {"True", "False"}
    /\ sc.ret = "True" <=>
         /\ Req \subseteq sc.file.columns
         /\ Len(sc.file.rows) >= 1
         /\ sc.file.rows[1].date \notin {BadDate, NoDate}

\* C29 (as claimed): when process_csv_file has returned from a file that
\* passed validation and holds an unparseable date, it returned False, the
\* call committed nothing (no call on that file ever did), and the file is in
\* the failed directory.
C29_Claim ==
  \A w \in Workers :
    (wk[w].pc = "ret" /\ wk[w].failedAt = "date")
      => /\ wk[w].result = "False"
         /\ ~wk[w].committed
         /\ wk[w].fid \notin hist.ingested
         /\ InDir(fs.failed, wk[w].path, wk[w].fid)

\* C30 (as claimed): for every accepted file name the key stamped on the rows
\* of a file without a symbol column is the upper-cased stem of the name, the
\* name without its final extension.
C30_Claim == sc.pc = "done" => sc.ret = Upper(stem(sc.name))

\* C31 (as claimed): after the only call ever made has committed the only
\* file ever dropped (into empty tables), the metadata total_rows of the
\* file's entity is the number of data rows stored under that entity, and
\* first_date / last_date are the minimum / maximum date of those rows.
StoredDates(t) == {data[i].date : i \in {j \in 1..Len(data) : data[j].symbol = t}}
StoredCount(t) == Cardinality({i \in 1..Len(data) : data[i].symbol = t})
C31_Claim ==
  \A w \in Workers :
    (puts = 1 /\ calls = 1 /\ wk[w].committed)
      => LET t == Ticker(wk[w].path)
         IN /\ t \in DOMAIN meta
            /\ meta[t].total_rows = StoredCount(t)
            /\ DateOf(variant, meta[t].first_date) = SetMin(StoredDates(t))
            /\ DateOf(variant, meta[t].last_date) = SetMax(StoredDates(t))

\* C32: within one call of process_csv_file the metadata upsert is issued at
\* most once, and only when every batch of the file has been executed with
\* success; it is never issued when a batch failed; a call that went through
\* all its batches issues it exactly once; and the commit is issued only
\* right after the metadata upsert has succeeded.
LogAt(stmt) == {i \in 1..Len(sc.log) : sc.log[i].stmt = stmt}
BatchesOkBefore(i) == Cardinality({j \in 1..(i - 1) : sc.log[j] = Issued("batch", TRUE)})
C32_MetaOnce ==
  /\ Cardinality(LogAt("meta")) <= 1
  /\ \A i \in LogAt("meta") :
       /\ BatchesOkBefore(i) = NumBatches(sc.df)
       /\ i = NumBatches(sc.df) + 1
  /\ (\E i \in LogAt("batch") : ~sc.log[i].ok) => LogAt("meta") = {}
  /\ (sc.pc \in {"commit", "close"} \/ (sc.pc = "done" /\ sc.done = NumBatches(sc.df)))
       => Cardinality(LogAt("meta")) = 1
  /\ \A i \in LogAt("commit") : i > 1 /\ sc.log[i - 1] = Issued("meta", TRUE)

\* a call on a file of several batches has committed and returned True
C32_Witness ==
  /\ sc.pc = "done"
  /\ sc.ret = "True"
  /\ NumBatches(sc.df) > 1
  /\ Cardinality(LogAt("meta")) = 1
  /\ sc.log[Len(sc.log)] = Issued("commit", TRUE)

\* C33: one invocation (a queue job, or a pool task of load_all_files) on one
\* file goes through validation, the read and transformation, the write and
\* the move at most once each, in that order, and never goes back to a step:
\* once its file was moved to the processed or the failed directory the
\* invocation neither reads nor writes again.
Rank(pc) ==
  CASE pc = "idle" -> 0 [] pc = "jvalidate" -> 1 [] pc = "read" -> 2 [] pc = "write" -> 3
    [] pc = "move" -> 4 [] pc = "except" -> 5 [] pc = "ret" -> 6 [] pc = "jfail" -> 7
    [] pc = "jdone" -> 8
C33_NoRetry ==
  [][\A w \in Workers :
       (wk[w].pc # "idle" /\ wk'[w] # wk[w])
         => \/ wk'[w].pc = "idle"
            \/ /\ Rank(wk'[w].pc) > Rank(wk[w].pc)
               /\ wk'[w].path = wk[w].path
               /\ (wk[w].moved # "none" \/ wk[w].pc \in {"jfail", "jdone"})
                    => wk'[w].pc \notin {"jvalidate", "read", "write", "move"}]_vars

\* a job whose call of process_csv_file failed is over, its file in failed
C33_Witness ==
  \E w \in Workers :
    /\ wk[w].pc = "jdone"
    /\ wk[w].failedAt = "process"
    /\ InDir(fs.failed, wk[w].path, wk[w].fid)

\* C34 (as claimed): every job of the queue is for a path that exists and
\* whose suffix is '.csv' in some letter case, and carries the path, the
\* watcher's source override and a timeout of 1800 seconds; an event enqueues
\* one job, for its path (the destination of a move), exactly when it is not
\* on a directory, the path has such a suffix and the path exists.
Target(e) == IF e.kind = "moved" THEN e.dest_path ELSE e.src_path
Enqueues(e) ==
  /\ ~e.is_directory
  /\ Len(Target(e)) > Len(DotCsv)
  /\ LowerName(SubSeq(Target(e), Len(Target(e)) - Len(DotCsv) + 1, Len(Target(e)))) = DotCsv
  /\ Target(e) \in sc.exists
C34_Jobs ==
  \A i \in 1..Len(sc.queue) :
    /\ Len(sc.queue[i].args) = 2
    /\ sc.queue[i].args[1] \in sc.exists
    /\ sc.queue[i].args[2] = sc.source
    /\ sc.queue[i].job_timeout = 1800
C34_Events ==
  [][sc'.handled > sc.handled =>
       IF Enqueues(sc'.event)
       THEN /\ Len(sc'.queue) = Len(sc.queue) + 1
            /\ SubSeq(sc'.queue, 1, Len(sc.queue)) = sc.queue
            /\ sc'.queue[Len(sc'.queue)].args[1] = Target(sc'.event)
       ELSE sc'.queue = sc.queue]_vars
C34_Claim == []C34_Jobs /\ C34_Events

\* C35: an entity of which a file was committed has a metadata row; a
\* metadata row is never removed, its first_date never increases and its
\* last_date never decreases; and the metadata table changes only in the
\* commit step of a call, never in a step of a call that fails.
C35_HasRow == \A t \in Tickers : hist.fileDates[t] # {} => t \in DOMAIN meta
C35_Lifecycle ==
  /\ []C35_HasRow
  /\ [][/\ \A t \in DOMAIN meta :
             /\ t \in DOMAIN meta'
             /\ DateOf(variant, meta'[t].first_date) <= DateOf(variant, meta[t].first_date)
             /\ DateOf(variant, meta'[t].last_date) >= DateOf(variant, meta[t].last_date)
        /\ meta' # meta =>
             \E w \in Workers :
               wk[w].pc = "write" /\ wk'[w].committed /\ wk'[w].failedAt = "none"]_vars

\* a call failed in its write after an earlier file of the entity, spanning
\* two dates, was committed
C35_Witness ==
  \E w \in Workers :
    /\ wk[w].pc = "ret" /\ wk[w].result = "False" /\ wk[w].failedAt = "meta"
    /\ "A" \in DOMAIN meta
    /\ DateOf(variant, meta["A"].first_date) = 9
    /\ DateOf(variant, meta["A"].last_date) = 10

\* C36 (as claimed): the file a call was started on (the only file ever
\* dropped, so that nothing but the pipeline touches it) is in exactly one of
\* the raw, the processed and the failed directory, in every state.
Places(name, id) ==
  {d \in {"raw", "processed", "failed"} : InDir(fs[d], name, id)}
C36_Claim ==
  \A w \in Workers :
    (puts = 1 /\ wk[w].fid = 1) => Cardinality(Places(wk[w].path, 1)) = 1

\* C37 (as claimed): when process_csv_file returns, it returns True exactly
\* when the call committed its transaction, and False exactly when the call
\* committed nothing.
C37_Claim ==
  \A w \in Workers :
    wk[w].pc = "ret" =>
      /\ wk[w].result \in {"True", "False"}
      /\ wk[w].result = "True" <=> wk[w].committed

\* C38 (as claimed): normalize_source applied to its own result returns that
\* result, and the result of normalize_source is a non-empty name or the
\* default 'tiingo'.
C38_Claim ==
  /\ sc.pc \in {"normalized", "renormalized"} => sc.normalized # << >>
  /\ sc.pc = "renormalized" => sc.again = sc.normalized

\* C39: a launcher given N > 1 starts N worker processes and none in its own
\* process; the first of them, and only the first, runs with the scheduler.
\* Given N <= 1 it starts no process and runs one worker in its own process,
\* with the scheduler.
Scheduled == {i \in 1..Len(sc.processes) : sc.processes[i].with_scheduler}
C39_Scheduler ==
  /\ sc.num_workers > 1 =>
       /\ ~sc.own.started
       /\ Len(sc.processes) <= sc.num_workers
       /\ Scheduled = IF sc.processes = << >> THEN {} ELSE {1}
       /\ sc.pc \in {"join", "done"} =>
            /\ Len(sc.processes) = sc.num_workers
            /\ Cardinality(Scheduled) = 1
            /\ Cardinality((1..Len(sc.processes)) \ Scheduled) = sc.num_workers - 1
  /\ sc.num_workers <= 1 =>
       /\ sc.processes = << >>
       /\ sc.pc # "main" => (sc.own.started /\ sc.own.with_scheduler)

\* three processes were started and the launcher waits for the first while
\* the third has already ended
C39_Witness ==
  /\ sc.pc = "join"
  /\ sc.num_workers = 3
  /\ Len(sc.processes) = 3
  /\ sc.joined = 0
  /\ sc.processes[3].state = "exited"
  /\ sc.processes[1].state = "running"

====
